---- MODULE Spec2Model ----
(***************************************************************************)
(* Model of the Telegram multi-service bot: the media-analysis aggregator  *)
(* (bot/services/vision_service.py, gemini_service.py), the adapters       *)
(* (removebg_service.py, youtube_service.py, tmdb_service.py), the message *)
(* handlers (bot/handlers.py) and startup (main.py).                       *)
(*                                                                         *)
(* A Python call that may raise is modelled by a record with a field       *)
(* `raised`; the upstream services are the environment and their answers   *)
(* are inputs drawn from bounded sets.                                     *)
(***************************************************************************)
EXTENDS Integers, Sequences, FiniteSets, TLC

VARIABLES
    vision_available,      \* VisionService.vision_available
    waiting_for_removebg,  \* context.user_data['waiting_for_removebg'] is set
    disk,                  \* temporary files that exist (tempfile names)
    handler,               \* the handler (or aggregator entry) that ran last
    file_type,             \* "image" / "video" / "none": kind of the upload
    caption,               \* TRUE iff the caption check of line 210 holds
    args,                  \* TRUE iff the command came with arguments
    vis,                   \* answer of the structured-vision backend
    gem,                   \* answers of the generative backend, per attempt
    upstream,              \* answer of the adapter's upstream (rb/yt/tmdb/ai)
    tg,                    \* which Telegram API call of the handler fails
    route,                 \* "removebg" / "analysis" / "none"
    analysis,              \* string returned by analyze_image/analyze_video
    calls,                 \* requests issued to each upstream by this handling
    replies,               \* messages/photos delivered to the user
    raised,                \* TRUE iff an exception left the handler
    created,               \* temp files created while handling this update
    typing,                \* send_chat_action calls issued by this handling
    invoked,               \* detectors of the structured-vision pass invoked
    request,               \* argument of the adapter function applied
    result,                \* what the adapter function returned or raised
    caption_text           \* the caption of the upload, character by character

vars == <<vision_available, waiting_for_removebg, disk, handler, file_type,
          caption, caption_text, args, vis, gem, upstream, tg,
                   route, analysis, calls,
          replies, raised, created, typing, invoked, request, result,
          caption_text>>

-----------------------------------------------------------------------------
(* Text.  A string is a sequence of chunks [s, n]: n characters of content *)
(* s.  The four markup characters are always chunks of their own.          *)

T(s, n) == [s |-> s, n |-> n]
Star == T("*", 1)
Underscore == T("_", 1)
LBracket == T("[", 1)
RBracket == T("]", 1)
NL == T("\n", 1)
Empty == <<>>

RECURSIVE TextLen(_)
TextLen(t) == IF t = <<>> THEN 0 ELSE Head(t).n + TextLen(Tail(t))

\* t[i..j] as a sequence
Slice(t, i, j) == [k \in 1..(j - i + 1) |-> t[i + k - 1]]

\* sub occurs in t as a contiguous block starting at position i
OccursAt(t, sub, i) ==
    /\ i >= 1
    /\ i + Len(sub) - 1 <= Len(t)
    /\ Slice(t, i, i + Len(sub) - 1) = sub

RECURSIVE Join(_, _)
Join(parts, sep) ==
    IF parts = <<>> THEN <<>>
    ELSE IF Len(parts) = 1 THEN parts[1]
    ELSE parts[1] \o sep \o Join(Tail(parts), sep)

\* fixed strings of the program
FallbackImage == <<T("Unable to analyze the image. Please try again later.", 52)>>
FallbackVideo == <<T("Unable to analyze the video. Please try again later.", 52)>>
PlaceholderImage == <<T("Unable to analyze the image.", 28)>>
PlaceholderVideo == <<T("Unable to analyze the video.", 28)>>
AIHeading == <<NL, NL, Star, Star, T("AI Analysis:", 12), Star, Star, NL>>

-----------------------------------------------------------------------------
(* Upstream answers (the environment).                                     *)

OcrLimit == 200
MaxGeminiAttempts == 3

Detectors == <<"labels", "text", "faces", "landmarks", "logos">>
DetectorSet == {Detectors[i] : i \in 1..Len(Detectors)}

\* what one detector call does: raise, return no annotation, return some;
\* the OCR text may also be too short to report or longer than the limit
DetectorOutcomes(d) ==
    IF d = "text" THEN {"raise", "none", "short", "found", "long"}
    ELSE {"raise", "none", "found"}

\* setup: reading the file and building vision.Image before the detectors
VisionSetups == {"ok", "read_raises", "image_raises"}

NoDetections == [d \in DetectorSet |-> "none"]
AllRaise == [d \in DetectorSet |-> "raise"]
AllFound == [d \in DetectorSet |-> "found"]

AllVisionResponses ==
    {[setup |-> "ok", det |-> f] :
        f \in {g \in [DetectorSet -> {"raise", "none", "short", "found", "long"}] :
                  \A d \in DetectorSet : g[d] \in DetectorOutcomes(d)}}
    \cup {[setup |-> s, det |-> NoDetections] : s \in VisionSetups \ {"ok"}}

\* the answers the handler-level specifications draw from
HandlerVisionResponses ==
    { [setup |-> "read_raises", det |-> NoDetections],
      [setup |-> "ok", det |-> NoDetections],
      [setup |-> "ok", det |-> AllRaise],
      [setup |-> "ok", det |-> [NoDetections EXCEPT !["labels"] = "found"]],
      [setup |-> "ok", det |-> AllFound] }

NoVision == [setup |-> "ok", det |-> NoDetections]

PlainNarrative == <<T("A dog on a beach.", 17)>>
MarkedNarrative ==
    <<Star, T("bold", 4), Star, T(" and ", 5), LBracket, T("link", 4), RBracket>>

\* narratives at and beyond the display budget of the handler (3800)
ExactNarrative == <<T("lorem ipsum", 3800)>>
LongNarrative == <<T("lorem ipsum", 5000)>>

GeminiRaises == [raises |-> TRUE, text |-> Empty]
GeminiResponses ==
    {GeminiRaises, [raises |-> FALSE, text |-> Empty],
     [raises |-> FALSE, text |-> PlainNarrative],
     [raises |-> FALSE, text |-> MarkedNarrative],
     [raises |-> FALSE, text |-> ExactNarrative],
     [raises |-> FALSE, text |-> LongNarrative]}

\* one answer per attempt; the answers after the first that does not raise
\* are never requested, so they repeat it
GeminiScripts ==
    {s \in [1..MaxGeminiAttempts -> GeminiResponses] :
        \A i \in 2..MaxGeminiAttempts : (~s[i-1].raises) => s[i] = s[i-1]}

NoGemini == [i \in 1..MaxGeminiAttempts |-> GeminiRaises]

-----------------------------------------------------------------------------
(* gemini_service.py                                                       *)

\* variant: an empty text is raised as a failure
MutGeminiImageRaisesOnEmpty(resp) ==
    IF resp.raises \/ resp.text = Empty THEN [raised |-> TRUE, value |-> Empty]
    ELSE [raised |-> FALSE, value |-> resp.text]

\* GeminiService.analyze_image_with_gemini: the answer's text, a placeholder
\* for an empty text, every exception re-raised
analyze_image_with_gemini(resp) ==
    IF resp.raises THEN [raised |-> TRUE, value |-> Empty]
    ELSE [raised |-> FALSE,
          value |-> IF resp.text # Empty THEN resp.text ELSE PlaceholderImage]

\* GeminiService.analyze_video_with_gemini
analyze_video_with_gemini(resp) ==
    IF resp.raises THEN [raised |-> TRUE, value |-> Empty]
    ELSE [raised |-> FALSE,
          value |-> IF resp.text # Empty THEN resp.text ELSE PlaceholderVideo]

-----------------------------------------------------------------------------
(* vision_service.py                                                       *)

DetectorLabel(d) ==
    CASE d = "labels" -> T("Objects Detected:", 17)
      [] d = "text" -> T("Text Found:", 11)
      [] d = "faces" -> T("Faces Detected:", 15)
      [] d = "landmarks" -> T("Landmarks:", 10)
      [] d = "logos" -> T("Logos:", 6)

\* the value a detector contributes for an outcome that has annotations
DetectorValue(d, outcome) ==
    CASE d = "labels" -> <<T(" cat, dog", 9)>>
      [] d = "text" ->
            IF outcome = "long"
            THEN <<T(" ", 1), T("ocr", OcrLimit), T("...", 3)>>
            ELSE <<T(" STOP sign", 10)>>
      [] d = "faces" -> <<T(" 2", 2)>>
      [] d = "landmarks" -> <<T(" Eiffel Tower", 13)>>
      [] d = "logos" -> <<T(" Acme", 5)>>

\* one detector block: the list of entries it appends (zero or one)
DetectorEntry(d, outcome) ==
    IF outcome \in {"found", "long"}
    THEN << <<Star, Star, DetectorLabel(d), Star, Star>> \o DetectorValue(d, outcome) >>
    ELSE <<>>

\* variant: a detector that raises ends the pass
RECURSIVE MutDetectorEntriesStopAtRaise(_, _)
MutDetectorEntriesStopAtRaise(det, i) ==
    IF i > Len(Detectors) \/ det[Detectors[i]] = "raise" THEN <<>>
    ELSE DetectorEntry(Detectors[i], det[Detectors[i]])
         \o MutDetectorEntriesStopAtRaise(det, i + 1)

RECURSIVE DetectorEntries(_, _)
DetectorEntries(det, i) ==
    IF i > Len(Detectors) THEN <<>>
    ELSE DetectorEntry(Detectors[i], det[Detectors[i]]) \o DetectorEntries(det, i + 1)

\* the detectors invoked from block i on: each block has its own
\* try/except, so the next block runs whatever the block did
RECURSIVE DetectorsInvoked(_, _)
DetectorsInvoked(det, i) ==
    IF i > Len(Detectors) THEN <<>>
    ELSE <<Detectors[i]>> \o DetectorsInvoked(det, i + 1)

\* variant: a failure of the pass is reported as a finding
MutGoogleVisionReportsError(v) ==
    IF v.setup # "ok" \/ \A d \in DetectorSet : v.det[d] = "raise"
    THEN [raised |-> FALSE, value |-> <<T("Vision analysis failed", 22)>>,
          detectors |-> <<>>]
    ELSE [raised |-> FALSE, value |-> Join(DetectorEntries(v.det, 1), <<NL>>),
          detectors |-> DetectorsInvoked(v.det, 1)]

\* VisionService._analyze_with_google_vision: every exception is swallowed
\* (a detector's in its own block, the others at line 167), the findings
\* are "" when nothing was appended
analyze_with_google_vision(v) ==
    IF v.setup # "ok" THEN [raised |-> FALSE, value |-> Empty, detectors |-> <<>>]
    ELSE [raised |-> FALSE, value |-> Join(DetectorEntries(v.det, 1), <<NL>>),
          detectors |-> DetectorsInvoked(v.det, 1)]

\* VisionService._analyze_with_gemini_image: logs and re-raises
analyze_with_gemini_image(resp) == analyze_image_with_gemini(resp)

\* variant: the two segments swapped
MutCombineNarrativeFirst(vision_results, gemini_analysis) ==
    IF vision_results # Empty /\ gemini_analysis # Empty
    THEN gemini_analysis \o AIHeading \o vision_results
    ELSE IF vision_results # Empty THEN vision_results
    ELSE gemini_analysis

\* the merge of VisionService._analyze_with_combined_vision (lines 88-94)
Combine(vision_results, gemini_analysis) ==
    IF vision_results # Empty /\ gemini_analysis # Empty
    THEN vision_results \o AIHeading \o gemini_analysis
    ELSE IF vision_results # Empty THEN vision_results
    ELSE gemini_analysis

\* VisionService._analyze_with_combined_vision; g is the generative
\* backend's script, `gemini` the number of requests made to it
analyze_with_combined_vision(v, g) ==
    LET vr == analyze_with_google_vision(v)
        ga == analyze_with_gemini_image(g[1])
    IN  IF vr.raised \/ ga.raised
        THEN \* except Exception: fallback to Gemini only (line 99)
             LET fb == analyze_with_gemini_image(g[IF vr.raised THEN 1 ELSE 2])
             IN  [raised |-> fb.raised, value |-> fb.value,
                  gemini |-> IF vr.raised THEN 1 ELSE 2, vision |-> 1,
                  detectors |-> vr.detectors]
        ELSE [raised |-> FALSE, value |-> Combine(vr.value, ga.value),
              gemini |-> 1, vision |-> 1, detectors |-> vr.detectors]

\* variant: no except clause around the first attempt
MutAnalyzeImagePropagates(va, v, g) ==
    LET first == IF va THEN analyze_with_combined_vision(v, g)
                 ELSE LET r == analyze_with_gemini_image(g[1])
                      IN [raised |-> r.raised, value |-> r.value,
                          gemini |-> 1, vision |-> 0, detectors |-> <<>>]
    IN  first

\* VisionService.analyze_image: the first attempt, and in the except clause
\* one more generative attempt, then the fixed fallback string
analyze_image(va, v, g) ==
    LET first == IF va THEN analyze_with_combined_vision(v, g)
                 ELSE LET r == analyze_with_gemini_image(g[1])
                      IN [raised |-> r.raised, value |-> r.value,
                          gemini |-> 1, vision |-> 0, detectors |-> <<>>]
    IN  IF ~first.raised THEN first
        ELSE LET fb == analyze_with_gemini_image(g[first.gemini + 1])
             IN  [raised |-> FALSE,
                  value |-> IF fb.raised THEN FallbackImage ELSE fb.value,
                  gemini |-> first.gemini + 1, vision |-> first.vision,
                  detectors |-> first.detectors]

\* variant: the image fallback string reused for videos
MutAnalyzeVideoSharedFallback(g) ==
    LET r == analyze_video_with_gemini(g[1])
    IN  [raised |-> FALSE,
         value |-> IF r.raised THEN FallbackImage ELSE r.value,
         gemini |-> 1, vision |-> 0, detectors |-> <<>>]

\* variant: videos go through the combined pass of images
MutAnalyzeVideoCombined(g) ==
    LET r == analyze_with_combined_vision([setup |-> "ok", det |-> AllFound], g)
    IN  [raised |-> FALSE,
         value |-> IF r.raised THEN FallbackVideo ELSE r.value,
         gemini |-> r.gemini, vision |-> r.vision, detectors |-> r.detectors]

\* VisionService.analyze_video: the generative backend alone, once
analyze_video(g) ==
    LET r == analyze_video_with_gemini(g[1])
    IN  [raised |-> FALSE,
         value |-> IF r.raised THEN FallbackVideo ELSE r.value,
         gemini |-> 1, vision |-> 0, detectors |-> <<>>]

-----------------------------------------------------------------------------
(* removebg_service.py                                                     *)

\* what the Remove.bg request does: 200, an HTTP error status, a request
\* failure without a response; "unreadable": open(image_path) raises
RbResponses == {"ok", "http400", "http402", "http500", "network", "unreadable"}

\* variant: the typed errors are raised inside the try block, where the last
\* except clause catches them and wraps their message
MutRemoveBackgroundWrapsAll(resp) ==
    CASE resp = "ok" ->
            [raised |-> FALSE, has_path |-> TRUE, error |-> "", requests |-> 1]
      [] resp = "http402" ->
            [raised |-> TRUE, has_path |-> FALSE, requests |-> 1,
             error |-> "Background removal failed: Background removal quota exceeded. Please try again later."]
      [] resp = "http400" ->
            [raised |-> TRUE, has_path |-> FALSE, requests |-> 1,
             error |-> "Background removal failed: Invalid image format. Please use JPG, PNG, or GIF."]
      [] resp = "http500" ->
            [raised |-> TRUE, has_path |-> FALSE, requests |-> 1,
             error |-> "Background removal failed: Background removal failed: 500"]
      [] resp = "network" ->
            [raised |-> TRUE, has_path |-> FALSE, requests |-> 1,
             error |-> "Background removal failed: Network error during background removal"]
      [] resp = "unreadable" ->
            [raised |-> TRUE, has_path |-> FALSE, requests |-> 0,
             error |-> "Background removal failed: [Errno 2]"]

\* RemoveBgService.remove_background: a result file is created and its
\* path returned, or an exception with a message is raised
remove_background(resp) ==
    CASE resp = "ok" ->
            [raised |-> FALSE, has_path |-> TRUE, error |-> "", requests |-> 1]
      [] resp = "http402" ->
            [raised |-> TRUE, has_path |-> FALSE, requests |-> 1,
             error |-> "Background removal quota exceeded. Please try again later."]
      [] resp = "http400" ->
            [raised |-> TRUE, has_path |-> FALSE, requests |-> 1,
             error |-> "Invalid image format. Please use JPG, PNG, or GIF."]
      [] resp = "http500" ->
            [raised |-> TRUE, has_path |-> FALSE, requests |-> 1,
             error |-> "Background removal failed: 500"]
      [] resp = "network" ->
            [raised |-> TRUE, has_path |-> FALSE, requests |-> 1,
             error |-> "Network error during background removal"]
      [] resp = "unreadable" ->
            [raised |-> TRUE, has_path |-> FALSE, requests |-> 0,
             error |-> "Background removal failed: [Errno 2]"]

-----------------------------------------------------------------------------
(* youtube_service.py and tmdb_service.py: number formatting               *)

Thousand == 1000
Million == 1000000
Billion == 1000000000

\* the counts and amounts formatted.  f"{x:.1f}" renders the binary
\* quotient, so a quotient exactly halfway between two tenths goes up or
\* down with its representation; such inputs are left out.
Counts ==
    {0, 1, 950, 999, 1000, 1001, 1049, 1051, 1500, 1949, 1951, 9999, 99949,
     99951, 999949, 999951, 999999, 1000000, 1049999, 1050001, 2300000,
     2349999, 999949999, 999950001, 999999999, 1000000000, 1200000000,
     1249999999, 1951000000}

\* a rendered number: prefix, integer part, the decimal digit when
\* decimals = 1, suffix
Rendered(prefix, whole, decimals, tenth, suffix) ==
    [prefix |-> prefix, whole |-> whole, decimals |-> decimals,
     tenth |-> tenth, suffix |-> suffix]

\* f"{n / unit:.1f}" followed by the suffix
OneDecimal(prefix, n, unit, suffix) ==
    LET tenths == (n + unit \div 20) \div (unit \div 10)
    IN  Rendered(prefix, tenths \div 10, 1, tenths % 10, suffix)

\* variant: thousands are rendered with the suffix of millions
MutFormatNumberWrongSuffix(is_int, n) ==
    IF ~is_int THEN Rendered("", 0, 0, 0, "")
    ELSE IF n >= Billion THEN OneDecimal("", n, Billion, "B")
    ELSE IF n >= Million THEN OneDecimal("", n, Million, "M")
    ELSE IF n >= Thousand THEN OneDecimal("", n, Thousand, "M")
    ELSE Rendered("", n, 0, 0, "")

\* YouTubeService._format_number: int(num_str), then the thresholds; a
\* string that is not an integer gives "0"
format_number(is_int, n) ==
    IF ~is_int THEN Rendered("", 0, 0, 0, "")
    ELSE IF n >= Billion THEN OneDecimal("", n, Billion, "B")
    ELSE IF n >= Million THEN OneDecimal("", n, Million, "M")
    ELSE IF n >= Thousand THEN OneDecimal("", n, Thousand, "K")
    ELSE Rendered("", n, 0, 0, "")

\* TMDBService._format_currency: the same thresholds behind a "$";
\* f"${amount:,}" has no separator to insert below 1000
format_currency(n) ==
    IF n >= Billion THEN OneDecimal("$", n, Billion, "B")
    ELSE IF n >= Million THEN OneDecimal("$", n, Million, "M")
    ELSE IF n >= Thousand THEN OneDecimal("$", n, Thousand, "K")
    ELSE Rendered("$", n, 0, 0, "")

-----------------------------------------------------------------------------
(* youtube_service.py: search_videos.  The upstream answers with one item; *)
(* `missing` names the fields its answer lacks.                            *)

YouTubeFields ==
    {"items", "videoId", "title", "channelTitle", "description", "publishedAt",
     "thumbnails", "stats_items", "statistics", "viewCount"}

RequestOutcomes == {"ok", "http_error", "network"}

\* the fields read with [...] in the order the code reads them; the
\* statistics of an item are read only when the second answer lists items
YouTubeIndexed(missing) ==
    <<"videoId">>
    \o (IF "stats_items" \in missing THEN <<>> ELSE <<"statistics">>)
    \o <<"title", "channelTitle", "description", "publishedAt", "thumbnails">>

\* the first element of keys that is in missing, "" if none
RECURSIVE FirstMissing(_, _)
FirstMissing(keys, missing) ==
    IF keys = <<>> THEN ""
    ELSE IF Head(keys) \in missing THEN Head(keys)
    ELSE FirstMissing(Tail(keys), missing)

\* YouTubeService.search_videos: a request failure and a KeyError are both
\* re-raised as Exception; no 'items' gives the empty list
search_videos(status, missing) ==
    IF status # "ok"
    THEN [raised |-> TRUE, error |-> "Failed to search YouTube", key |-> "",
          videos |-> <<>>]
    ELSE IF "items" \in missing
    THEN [raised |-> FALSE, error |-> "", key |-> "", videos |-> <<>>]
    ELSE LET k == FirstMissing(YouTubeIndexed(missing), missing)
         IN  IF k # ""
             THEN [raised |-> TRUE, error |-> "YouTube search failed", key |-> k,
                   videos |-> <<>>]
             ELSE [raised |-> FALSE, error |-> "", key |-> "",
                   videos |->
                     << [title |-> "value", channel |-> "value",
                         description |-> "value", published_at |-> "value",
                         thumbnail |-> "value",
                         views |-> IF {"stats_items", "viewCount"} \cap missing = {}
                                   THEN format_number(TRUE, 1500)
                                   ELSE format_number(TRUE, 0)] >>]

-----------------------------------------------------------------------------
(* tmdb_service.py: search_movie and _format_movie_data                    *)

TMDBFields ==
    {"results", "id", "title", "release_date", "vote_average", "runtime",
     "genres", "genre_name", "overview", "poster_path", "credits", "revenue"}

\* the record of the except clause (lines 138-156)
ErrorMovieData ==
    [title |-> "Error formatting movie data", year |-> "Unknown",
     rating |-> "0", runtime |-> "Unknown", genres |-> "[]",
     overview |-> "Unable to retrieve movie information.", poster_url |-> "None",
     cast |-> "[]", director |-> "Unknown", revenue |-> <<>>]

\* TMDBService._format_movie_data: dict.get with defaults; genre['name'] is
\* indexed, and the KeyError gives the record of the except clause
format_movie_data(missing) ==
    LET has(f) == f \notin missing
    IN  IF has("genres") /\ ~has("genre_name") THEN ErrorMovieData
        ELSE [title |-> IF has("title") THEN "value" ELSE "Unknown Title",
              year |-> IF has("release_date") THEN "value" ELSE "Unknown",
              rating |-> IF has("vote_average") THEN "value" ELSE "0",
              runtime |-> IF has("runtime") THEN "value" ELSE "Unknown",
              genres |-> IF has("genres") THEN "value" ELSE "[]",
              overview |-> IF has("overview") THEN "value"
                           ELSE "No overview available.",
              poster_url |-> IF has("poster_path") THEN "value" ELSE "None",
              cast |-> IF has("credits") THEN "value" ELSE "[]",
              director |-> IF has("credits") THEN "value" ELSE "Unknown",
              revenue |-> IF has("revenue") THEN <<format_currency(2300000)>>
                          ELSE <<>>]

\* TMDBService.search_movie: no results gives None; movie['id'] is indexed
search_movie(status, missing) ==
    IF status # "ok"
    THEN [raised |-> TRUE, error |-> "Failed to search movies", key |-> "",
          movie |-> <<>>]
    ELSE IF "results" \in missing
    THEN [raised |-> FALSE, error |-> "", key |-> "", movie |-> <<>>]
    ELSE IF "id" \in missing
    THEN [raised |-> TRUE, error |-> "Movie search failed", key |-> "id",
          movie |-> <<>>]
    ELSE [raised |-> FALSE, error |-> "", key |-> "",
          movie |-> <<format_movie_data(missing)>>]

-----------------------------------------------------------------------------
(* handlers.py: helpers                                                    *)

AnalysisBudget == 3800
MaxFiles == 3

Upstreams == {"gemini_text", "gemini_media", "vision", "youtube", "tmdb", "removebg"}
NoCalls == [u \in Upstreams |-> 0]

\* tempfile.NamedTemporaryFile(delete=False): a name not in use
Fresh(d) == CHOOSE n \in 1..(MaxFiles + 2) :
                n \notin d /\ \A m \in 1..(n - 1) : m \in d

\* the first n characters of t
RECURSIVE Prefix(_, _)
Prefix(t, n) ==
    IF t = <<>> \/ n <= 0 THEN <<>>
    ELSE IF Head(t).n <= n THEN <<Head(t)>> \o Prefix(Tail(t), n - Head(t).n)
    ELSE <<T(Head(t).s, n)>>

IsMarkup(c) == c.s \in {"*", "_", "[", "]"}
NotMarkup(c) == ~IsMarkup(c)

\* variant: the text is not cut
MutFormatAnalysisNoCut(a) == SelectSeq(a, NotMarkup)

\* variant: the brackets are left in the text
MutFormatAnalysisKeepsBrackets(a) ==
    LET cut == IF TextLen(a) > AnalysisBudget
               THEN Prefix(a, AnalysisBudget) \o <<T("...", 3)>>
               ELSE a
        NotEmphasis(c) == c.s \notin {"*", "_"}
    IN  SelectSeq(cut, NotEmphasis)

\* variant: a text of exactly the budget is cut as well
MutFormatAnalysisCutsAtBudget(a) ==
    LET cut == IF TextLen(a) >= AnalysisBudget
               THEN Prefix(a, AnalysisBudget) \o <<T("...", 3)>>
               ELSE a
    IN  SelectSeq(cut, NotMarkup)

\* lines 245-249: truncate to the budget, then remove the markup characters
FormatAnalysis(a) ==
    LET cut == IF TextLen(a) > AnalysisBudget
               THEN Prefix(a, AnalysisBudget) \o <<T("...", 3)>>
               ELSE a
    IN  SelectSeq(cut, NotMarkup)

Reply(via, kind, text) == [via |-> via, kind |-> kind, text |-> text]

\* format_error_message(service_name, ...) sent with reply_text
ErrorReply(service) == Reply("reply_text", "error", <<T(service, 1)>>)

\* which Telegram API call of the handler raises (the first one that does),
\* and whether the reply of the except clause can be delivered
TgScripts ==
    [fault : {"none", "chat_action", "get_file", "download", "send"},
     error_reply_ok : BOOLEAN]
CommandTgScripts == {t \in TgScripts : t.fault \in {"none", "chat_action", "send"}}
ReplyTgScripts == {t \in TgScripts : t.fault \in {"none", "send"} /\ t.error_reply_ok}
TgOk == [fault |-> "none", error_reply_ok |-> TRUE]

\* the state a handler works on; exc: an exception is propagating
Start(flag, d) ==
    [replies |-> <<>>, raised |-> FALSE, exc |-> FALSE, disk |-> d, flag |-> flag,
     created |-> {}, route |-> "none", analysis |-> Empty, calls |-> NoCalls,
     typing |-> 0, invoked |-> <<>>]

\* reply_text / send_photo: delivers the message unless the call raises
Send(st, t, r) ==
    IF t.fault = "send" THEN [st EXCEPT !.exc = TRUE]
    ELSE [st EXCEPT !.replies = Append(@, r)]

\* a reply outside any try block: the exception leaves the handler
SendOrRaise(st, t, r) ==
    IF t.fault = "send" THEN [st EXCEPT !.raised = TRUE]
    ELSE [st EXCEPT !.replies = Append(@, r)]

\* except Exception as e: reply with the error text
Except(st, t, r) ==
    IF ~st.exc THEN st
    ELSE IF t.error_reply_ok
         THEN [st EXCEPT !.exc = FALSE, !.replies = Append(@, r)]
         ELSE [st EXCEPT !.exc = FALSE, !.raised = TRUE]

-----------------------------------------------------------------------------
(* handlers.py: the handlers, each a function from the session state and   *)
(* the inputs of one update to the state the handler leaves                *)

\* start_handler, help_handler, removebg_handler: one reply, no try block
RunStart(flag, d, t) ==
    SendOrRaise(Start(flag, d), t, Reply("reply_text", "welcome", Empty))

RunHelp(flag, d, t) ==
    SendOrRaise(Start(flag, d), t, Reply("reply_text", "help", Empty))

RunRemovebgCommand(flag, d, t) ==
    SendOrRaise(Start(flag, d), t, Reply("reply_text", "removebg_prompt", Empty))

\* a command handler's try block after the argument check: typing
\* indicator, one adapter call, one reply; up is the adapter's outcome
CommandBody(st, t, adapter, up, ok_reply, empty_reply) ==
    IF t.fault = "chat_action" THEN [st EXCEPT !.typing = @ + 1, !.exc = TRUE]
    ELSE LET called == [st EXCEPT !.typing = @ + 1, !.calls[adapter] = @ + 1]
         IN  CASE up = "raise" -> [called EXCEPT !.exc = TRUE]
               [] up = "empty" -> Send(called, t, empty_reply)
               [] OTHER -> Send(called, t, ok_reply)

\* variant: the typing indicator is sent before the argument check
MutGeminiTypingFirst(flag, d, has_args, up, t) ==
    IF ~has_args
    THEN SendOrRaise([Start(flag, d) EXCEPT !.typing = 1], t,
                     Reply("reply_text", "usage_ai", Empty))
    ELSE Except(CommandBody(Start(flag, d), t, "gemini_text", up,
                            Reply("reply_text", "ai_response", Empty),
                            Reply("reply_text", "ai_response", Empty)),
                t, ErrorReply("AI Assistant"))

\* gemini_handler (/ai); generate_response turns an empty answer into an
\* apology text, so the reply is the AI response in both cases
RunGemini(flag, d, has_args, up, t) ==
    IF ~has_args
    THEN SendOrRaise(Start(flag, d), t, Reply("reply_text", "usage_ai", Empty))
    ELSE Except(CommandBody(Start(flag, d), t, "gemini_text", up,
                            Reply("reply_text", "ai_response", Empty),
                            Reply("reply_text", "ai_response", Empty)),
                t, ErrorReply("AI Assistant"))

\* variant: an empty result list is raised as an error
MutYoutubeEmptyIsError(flag, d, has_args, up, t) ==
    IF ~has_args
    THEN SendOrRaise(Start(flag, d), t, Reply("reply_text", "usage_youtube", Empty))
    ELSE Except(CommandBody(Start(flag, d), t, "youtube",
                            IF up = "empty" THEN "raise" ELSE up,
                            Reply("reply_text", "youtube_results", Empty),
                            Reply("reply_text", "no_videos", Empty)),
                t, ErrorReply("YouTube Search"))

\* variant: no return after the "No videos found" reply
MutYoutubeNoReturn(flag, d, has_args, up, t) ==
    IF ~has_args
    THEN SendOrRaise(Start(flag, d), t, Reply("reply_text", "usage_youtube", Empty))
    ELSE LET body == CommandBody(Start(flag, d), t, "youtube", up,
                                 Reply("reply_text", "youtube_results", Empty),
                                 Reply("reply_text", "no_videos", Empty))
             more == IF up = "empty" /\ ~body.exc
                     THEN Send(body, t, Reply("reply_text", "youtube_results", Empty))
                     ELSE body
         IN  Except(more, t, ErrorReply("YouTube Search"))

\* youtube_handler (/youtube)
RunYoutube(flag, d, has_args, up, t) ==
    IF ~has_args
    THEN SendOrRaise(Start(flag, d), t, Reply("reply_text", "usage_youtube", Empty))
    ELSE Except(CommandBody(Start(flag, d), t, "youtube", up,
                            Reply("reply_text", "youtube_results", Empty),
                            Reply("reply_text", "no_videos", Empty)),
                t, ErrorReply("YouTube Search"))

\* variant: no except clause around the movie lookup
MutMovieNoExcept(flag, d, has_args, up, t) ==
    IF ~has_args
    THEN SendOrRaise(Start(flag, d), t, Reply("reply_text", "usage_movie", Empty))
    ELSE LET body == CommandBody(Start(flag, d), t, "tmdb", up,
                                 IF up = "result_no_poster"
                                 THEN Reply("reply_text", "movie_details", Empty)
                                 ELSE Reply("send_photo", "movie_details", Empty),
                                 Reply("reply_text", "no_movie", Empty))
         IN  [body EXCEPT !.exc = FALSE, !.raised = body.exc]

\* movie_handler (/movie): the details go out as a photo when the movie
\* has a poster, as a text otherwise
RunMovie(flag, d, has_args, up, t) ==
    IF ~has_args
    THEN SendOrRaise(Start(flag, d), t, Reply("reply_text", "usage_movie", Empty))
    ELSE Except(CommandBody(Start(flag, d), t, "tmdb", up,
                            IF up = "result_no_poster"
                            THEN Reply("reply_text", "movie_details", Empty)
                            ELSE Reply("send_photo", "movie_details", Empty),
                            Reply("reply_text", "no_movie", Empty)),
                t, ErrorReply("Movie Search"))

\* text_handler: free text goes to the AI assistant; its except clause
\* replies with a fixed text
RunText(flag, d, up, t) ==
    Except(CommandBody(Start(flag, d), t, "gemini_text", up,
                       Reply("reply_text", "ai_response", Empty),
                       Reply("reply_text", "ai_response", Empty)),
           t, Reply("reply_text", "text_trouble", Empty))

\* captions of uploads: none, the command in lower case, the command in
\* mixed case inside other text
NoCaption == <<>>
Captions ==
    { NoCaption,
      <<"/", "r", "e", "m", "o", "v", "e", "b", "g">>,
      <<"O", "k", " ", "/", "R", "e", "m", "o", "v", "e", "B", "G">> }

\* str.lower() on the characters that occur in the captions
LowerChar(c) ==
    CASE c = "R" -> "r" [] c = "E" -> "e" [] c = "M" -> "m" [] c = "O" -> "o"
      [] c = "V" -> "v" [] c = "B" -> "b" [] c = "G" -> "g" [] c = "K" -> "k"
      [] OTHER -> c

Lower(text) == [i \in 1..Len(text) |-> LowerChar(text[i])]

\* sub in text
Contains(text, sub) ==
    \E i \in 1..(Len(text) - Len(sub) + 1) : SubSeq(text, i, i + Len(sub) - 1) = sub

\* variant: the caption is searched without lower()
MutCaptionCaseSensitive(text) ==
    text # <<>> /\ Contains(text, <<"/", "r", "e", "m", "o", "v", "e", "b", "g">>)

\* line 210: update.message.caption and "/removebg" in caption.lower()
CaptionRequestsRemoval(text) ==
    text # <<>> /\ Contains(Lower(text), <<"/", "r", "e", "m", "o", "v", "e", "b", "g">>)

\* vision_handler lines 210-233: the background-removal branch
RemovebgBranch(st, ft, rb, t) ==
    LET branch ==
          IF ft = "image"
          THEN LET r == remove_background(rb)
                   called == [st EXCEPT !.calls["removebg"] = @ + r.requests]
               IN  IF r.raised THEN [called EXCEPT !.exc = TRUE]
                   ELSE IF r.has_path
                   THEN LET result_path == Fresh(st.disk)
                            saved == [called EXCEPT !.disk = @ \cup {result_path},
                                                    !.created = @ \cup {result_path}]
                            sent == Send(saved, t,
                                         Reply("send_photo", "background_removed", Empty))
                        IN  IF sent.exc THEN sent
                            ELSE [sent EXCEPT !.disk = @ \ {result_path}]
                   ELSE Send(called, t, Reply("reply_text", "removebg_failed", Empty))
          ELSE Send(st, t, Reply("reply_text", "removebg_images_only", Empty))
    IN  \* clear the waiting state (reached only without an exception)
        IF branch.exc THEN branch ELSE [branch EXCEPT !.flag = FALSE]

\* vision_handler lines 236-254: the analysis branch
AnalysisBranch(st, va, ft, v, g, t) ==
    LET a == IF ft = "image" THEN analyze_image(va, v, g) ELSE analyze_video(g)
        done == [st EXCEPT !.analysis = a.value,
                           !.calls["gemini_media"] = @ + a.gemini,
                           !.calls["vision"] = @ + a.vision,
                           !.invoked = a.detectors]
    IN  IF a.raised THEN [done EXCEPT !.exc = TRUE]
        ELSE IF a.value # Empty
        THEN Send(done, t, Reply("reply_text", "analysis", FormatAnalysis(a.value)))
        ELSE Send(done, t, Reply("reply_text", "unable_to_analyze", Empty))

\* variant: no finally clause, the downloaded file stays
MutTryFinallyKeepsFile(st, temp_path, va, ft, cap, v, g, rb, t) ==
    LET routed == [st EXCEPT !.route = IF cap \/ st.flag THEN "removebg"
                                       ELSE "analysis"]
    IN  IF cap \/ st.flag
        THEN RemovebgBranch(routed, ft, rb, t)
        ELSE AnalysisBranch(routed, va, ft, v, g, t)

\* vision_handler lines 208-259: try ... finally around the two branches
TryFinally(st, temp_path, va, ft, cap, v, g, rb, t) ==
    LET routed == [st EXCEPT !.route = IF cap \/ st.flag THEN "removebg"
                                       ELSE "analysis"]
        body == IF cap \/ st.flag
                THEN RemovebgBranch(routed, ft, rb, t)
                ELSE AnalysisBranch(routed, va, ft, v, g, t)
    IN  \* finally: remove the downloaded file
        [body EXCEPT !.disk = @ \ {temp_path}]

\* vision_handler
RunVision(flag, d, va, ft, cap, v, g, rb, t) ==
    LET st == [Start(flag, d) EXCEPT !.typing = 1]
        temp_path == Fresh(d)
        downloaded == [st EXCEPT !.disk = @ \cup {temp_path},
                                 !.created = {temp_path}]
        outcome ==
          IF t.fault = "chat_action" THEN [st EXCEPT !.exc = TRUE]
          ELSE IF ft \notin {"image", "video"}
          THEN Send(st, t, Reply("reply_text", "unable_to_process", Empty))
          ELSE IF t.fault = "get_file" THEN [st EXCEPT !.exc = TRUE]
          ELSE IF t.fault = "download" THEN [downloaded EXCEPT !.exc = TRUE]
          ELSE TryFinally(downloaded, temp_path, va, ft, cap, v, g, rb, t)
    IN  Except(outcome, t, ErrorReply("File Analysis"))

-----------------------------------------------------------------------------
(* The dispatcher: main.py registers one handler per kind of update; the   *)
(* application runs the handlers one update at a time.                      *)

AdapterOutcomes == {"raise", "empty", "result"}
MovieOutcomes == {"raise", "empty", "result", "result_no_poster"}

\* no adapter function is applied on its own while the bot handles updates
NoRequest == [fn |-> "none", n |-> 0, status |-> "n/a", missing |-> {}]
NoResult == [raised |-> FALSE]

\* the state the handler leaves becomes the state of the bot
Handled(h, ft, cap, has_args, v, g, up, t, st) ==
    /\ handler' = h
    /\ file_type' = ft
    /\ caption_text' = cap
    /\ caption' = CaptionRequestsRemoval(cap)
    /\ args' = has_args
    /\ vis' = v
    /\ gem' = g
    /\ upstream' = up
    /\ tg' = t
    /\ route' = st.route
    /\ analysis' = st.analysis
    /\ calls' = st.calls
    /\ replies' = st.replies
    /\ raised' = st.raised
    /\ created' = st.created
    /\ typing' = st.typing
    /\ invoked' = st.invoked
    /\ disk' = st.disk
    /\ waiting_for_removebg' = st.flag
    /\ UNCHANGED <<vision_available, request, result>>

start_handler ==
    \E t \in ReplyTgScripts :
        Handled("start", "none", NoCaption, FALSE, NoVision, NoGemini, "n/a", t,
                RunStart(waiting_for_removebg, disk, t))

help_handler ==
    \E t \in ReplyTgScripts :
        Handled("help", "none", NoCaption, FALSE, NoVision, NoGemini, "n/a", t,
                RunHelp(waiting_for_removebg, disk, t))

gemini_handler ==
    \E has_args \in BOOLEAN :
      \E up \in (IF has_args THEN AdapterOutcomes ELSE {"n/a"}) :
        \E t \in (IF has_args THEN CommandTgScripts ELSE ReplyTgScripts) :
          Handled("gemini", "none", NoCaption, has_args, NoVision, NoGemini, up, t,
                  RunGemini(waiting_for_removebg, disk, has_args, up, t))

youtube_handler ==
    \E has_args \in BOOLEAN :
      \E up \in (IF has_args THEN AdapterOutcomes ELSE {"n/a"}) :
        \E t \in (IF has_args THEN CommandTgScripts ELSE ReplyTgScripts) :
          Handled("youtube", "none", NoCaption, has_args, NoVision, NoGemini, up, t,
                  RunYoutube(waiting_for_removebg, disk, has_args, up, t))

movie_handler ==
    \E has_args \in BOOLEAN :
      \E up \in (IF has_args THEN MovieOutcomes ELSE {"n/a"}) :
        \E t \in (IF has_args THEN CommandTgScripts ELSE ReplyTgScripts) :
          Handled("movie", "none", NoCaption, has_args, NoVision, NoGemini, up, t,
                  RunMovie(waiting_for_removebg, disk, has_args, up, t))

removebg_handler ==
    \E t \in ReplyTgScripts :
        Handled("removebg", "none", NoCaption, FALSE, NoVision, NoGemini, "n/a", t,
                RunRemovebgCommand(waiting_for_removebg, disk, t))

text_handler ==
    \E up \in AdapterOutcomes, t \in CommandTgScripts :
        Handled("text", "none", NoCaption, FALSE, NoVision, NoGemini, up, t,
                RunText(waiting_for_removebg, disk, up, t))

\* filters.PHOTO | filters.VIDEO: the upload is a photo or a video.  The
\* answers of the upstreams the handler does not reach are not drawn.
vision_handler ==
    /\ Cardinality(disk) + 2 <= MaxFiles
    /\ \E ft \in {"image", "video"}, text \in Captions, t \in TgScripts :
         LET reaches == t.fault \in {"none", "send"}
             cap == CaptionRequestsRemoval(text)
             removal == cap \/ waiting_for_removebg
         IN  \E v \in (IF reaches /\ ~removal /\ ft = "image" /\ vision_available
                       THEN HandlerVisionResponses ELSE {NoVision}) :
               \E g \in (IF reaches /\ ~removal THEN GeminiScripts ELSE {NoGemini}) :
                 \E rb \in (IF reaches /\ removal /\ ft = "image"
                            THEN RbResponses ELSE {"n/a"}) :
                   Handled("vision", ft, text, FALSE, v, g, rb, t,
                           RunVision(waiting_for_removebg, disk, vision_available,
                                     ft, cap, v, g, rb, t))

InitCommon ==
    /\ vision_available \in BOOLEAN
    /\ disk = {}
    /\ handler = "none"
    /\ file_type = "none"
    /\ caption = FALSE
    /\ caption_text = NoCaption
    /\ args = FALSE
    /\ vis = NoVision
    /\ gem = NoGemini
    /\ upstream = "n/a"
    /\ tg = TgOk
    /\ route = "none"
    /\ analysis = Empty
    /\ calls = NoCalls
    /\ replies = <<>>
    /\ raised = FALSE
    /\ created = {}
    /\ typing = 0
    /\ invoked = <<>>
    /\ request = NoRequest
    /\ result = NoResult

\* the bot after startup: user_data is empty
Init ==
    /\ InitCommon
    /\ waiting_for_removebg = FALSE

Next ==
    \/ start_handler
    \/ help_handler
    \/ gemini_handler
    \/ youtube_handler
    \/ movie_handler
    \/ removebg_handler
    \/ vision_handler
    \/ text_handler

Spec == Init /\ [][Next]_vars

\* the handlers as functions of their arguments (update, context): the
\* context's user_data is an argument, with or without the waiting flag
HandlerInit ==
    /\ InitCommon
    /\ waiting_for_removebg \in BOOLEAN

HandlerSpec == HandlerInit /\ [][Next]_vars

-----------------------------------------------------------------------------
(* The aggregator as a function: every availability, every answer of the   *)
(* structured-vision backend, every script of the generative backend.      *)

AggInit ==
    /\ vision_available \in BOOLEAN
    /\ waiting_for_removebg = FALSE
    /\ disk = {}
    /\ handler = "none"
    /\ file_type \in {"image", "video"}
    /\ caption = FALSE
    /\ caption_text = NoCaption
    /\ args = FALSE
    /\ vis \in (IF file_type = "image" THEN AllVisionResponses ELSE {NoVision})
    /\ gem \in GeminiScripts
    /\ upstream = "n/a"
    /\ tg = TgOk
    /\ route = "none"
    /\ analysis = Empty
    /\ calls = NoCalls
    /\ replies = <<>>
    /\ raised = FALSE
    /\ created = {}
    /\ typing = 0
    /\ invoked = <<>>
    /\ request = NoRequest
    /\ result = NoResult

Returned(h, a) ==
    /\ handler' = h
    /\ analysis' = a.value
    /\ raised' = a.raised
    /\ calls' = [calls EXCEPT !["gemini_media"] = @ + a.gemini,
                              !["vision"] = @ + a.vision]
    /\ invoked' = a.detectors
    /\ UNCHANGED <<vision_available, waiting_for_removebg, disk, file_type,
                   caption, caption_text, args, vis, gem, upstream, tg,
                   route, replies, created,
                   typing, request, result>>

AnalyzeImage ==
    /\ handler = "none"
    /\ file_type = "image"
    /\ Returned("analyze_image", analyze_image(vision_available, vis, gem))

AnalyzeVideo ==
    /\ handler = "none"
    /\ file_type = "video"
    /\ Returned("analyze_video", analyze_video(gem))

AggNext == AnalyzeImage \/ AnalyzeVideo

AggSpec == AggInit /\ [][AggNext]_vars

-----------------------------------------------------------------------------
(* The adapters and their formatting helpers as functions: a request names *)
(* the function and its argument (n: the number; status: what the upstream *)
(* does; missing: the fields absent from the upstream's answer).           *)

FormatRequests ==
    [fn : {"format_number", "format_currency"}, n : Counts,
     status : {"int"}, missing : {{}}]
    \cup {[fn |-> "format_number", n |-> 0, status |-> "not_int", missing |-> {}]}

\* a failed request has no answer whose fields could be missing
SearchRequests ==
    {[fn |-> "search_videos", n |-> 0, status |-> s, missing |-> f] :
        s \in RequestOutcomes \ {"ok"}, f \in {{}}}
    \cup {[fn |-> "search_videos", n |-> 0, status |-> "ok", missing |-> f] :
            f \in SUBSET YouTubeFields}
    \cup {[fn |-> "search_movie", n |-> 0, status |-> s, missing |-> f] :
            s \in RequestOutcomes \ {"ok"}, f \in {{}}}
    \cup {[fn |-> "search_movie", n |-> 0, status |-> "ok", missing |-> f] :
            f \in SUBSET TMDBFields}

RemoveRequests ==
    [fn : {"remove_background"}, n : {0}, status : RbResponses, missing : {{}}]

AdapterRequests == FormatRequests \cup SearchRequests \cup RemoveRequests

AdapterInit ==
    /\ vision_available = FALSE
    /\ waiting_for_removebg = FALSE
    /\ disk = {}
    /\ handler = "none"
    /\ file_type = "none"
    /\ caption = FALSE
    /\ caption_text = NoCaption
    /\ args = FALSE
    /\ vis = NoVision
    /\ gem = NoGemini
    /\ upstream = "n/a"
    /\ tg = TgOk
    /\ route = "none"
    /\ analysis = Empty
    /\ calls = NoCalls
    /\ replies = <<>>
    /\ raised = FALSE
    /\ created = {}
    /\ typing = 0
    /\ invoked = <<>>
    /\ request \in AdapterRequests
    /\ result = NoResult

Applied(fn, r) ==
    /\ handler = "none"
    /\ request.fn = fn
    /\ handler' = fn
    /\ result' = r
    /\ raised' = r.raised
    /\ UNCHANGED <<vision_available, waiting_for_removebg, disk, file_type,
                   caption, caption_text, args, vis, gem, upstream, tg,
                   route, analysis,
                   calls, replies, created, typing, invoked, request>>

FormatNumber ==
    Applied("format_number",
            [raised |-> FALSE,
             value |-> format_number(request.status = "int", request.n)])

FormatCurrency ==
    Applied("format_currency",
            [raised |-> FALSE, value |-> format_currency(request.n)])

SearchVideos ==
    Applied("search_videos", search_videos(request.status, request.missing))

SearchMovie ==
    Applied("search_movie", search_movie(request.status, request.missing))

RemoveBackground ==
    Applied("remove_background", remove_background(request.status))

AdapterNext ==
    \/ FormatNumber
    \/ FormatCurrency
    \/ SearchVideos
    \/ SearchMovie
    \/ RemoveBackground

AdapterSpec == AdapterInit /\ [][AdapterNext]_vars

-----------------------------------------------------------------------------
(* Startup: python main.py with some of the credentials missing from the   *)
(* environment.                                                            *)

Credentials ==
    {"TELEGRAM_BOT_TOKEN", "GEMINI_API_KEY", "YOUTUBE_API_KEY",
     "REMOVEBG_API_KEY", "TMDB_API_KEY", "GOOGLE_APPLICATION_CREDENTIALS"}

\* main.py as a Python source file: the def at line 43 is followed by a
\* body at the indentation of the def (line 44), and line 64 dedents to no
\* enclosing level, so the file is rejected before any statement runs
MainCompiles == FALSE

\* the keys the service constructors of handlers.py lines 20-24 require, in
\* the order they run (VisionService builds a GeminiService of its own)
ConstructorKeys ==
    <<"GEMINI_API_KEY", "YOUTUBE_API_KEY", "REMOVEBG_API_KEY", "TMDB_API_KEY",
      "GEMINI_API_KEY">>

\* import bot.handlers: the first constructor without its key raises
\* ValueError; VisionService only records whether its credentials are there
ImportHandlers(missing) ==
    LET k == FirstMissing(ConstructorKeys, missing)
    IN  [raised |-> k # "", key |-> k,
         vision_available |-> k = "" /\ "GOOGLE_APPLICATION_CREDENTIALS" \notin missing]

StartupOutcome(outcome, raised_, registered, va) ==
    [raised |-> raised_, outcome |-> outcome, registered |-> registered,
     polling |-> FALSE, vision_available |-> va]

\* python main.py: compile the file, run the imports, then main(): the token
\* check, the handlers, run_polling.  post_init reads Config.WEBHOOK_URL,
\* which config.py does not define, so run_polling raises when it
\* initialises the application.
RunStartup(missing) ==
    IF ~MainCompiles THEN StartupOutcome("IndentationError", TRUE, FALSE, FALSE)
    ELSE LET imp == ImportHandlers(missing)
         IN  IF imp.raised THEN StartupOutcome("ValueError", TRUE, FALSE, FALSE)
             ELSE IF "TELEGRAM_BOT_TOKEN" \in missing
             THEN StartupOutcome("no_token", FALSE, FALSE, imp.vision_available)
             ELSE StartupOutcome("AttributeError", TRUE, TRUE, imp.vision_available)

StartupInit ==
    /\ vision_available = FALSE
    /\ waiting_for_removebg = FALSE
    /\ disk = {}
    /\ handler = "none"
    /\ file_type = "none"
    /\ caption = FALSE
    /\ caption_text = NoCaption
    /\ args = FALSE
    /\ vis = NoVision
    /\ gem = NoGemini
    /\ upstream = "n/a"
    /\ tg = TgOk
    /\ route = "none"
    /\ analysis = Empty
    /\ calls = NoCalls
    /\ replies = <<>>
    /\ raised = FALSE
    /\ created = {}
    /\ typing = 0
    /\ invoked = <<>>
    /\ request \in {[fn |-> "startup", n |-> 0, status |-> "n/a", missing |-> f] :
                       f \in SUBSET Credentials}
    /\ result = NoResult

Startup ==
    /\ handler = "none"
    /\ LET r == RunStartup(request.missing)
       IN  /\ handler' = "startup"
           /\ result' = r
           /\ raised' = r.raised
           /\ vision_available' = r.vision_available
    /\ UNCHANGED <<waiting_for_removebg, disk, file_type, caption, caption_text,
                   args, vis,
                   gem, upstream, tg, route, analysis, calls, replies, created,
                   typing, invoked, request>>

StartupNext == Startup

StartupSpec == StartupInit /\ [][StartupNext]_vars

-----------------------------------------------------------------------------
(* Properties of the aggregator (AggSpec)                                  *)

ImageAnalyzed == handler = "analyze_image"
VideoAnalyzed == handler = "analyze_video"

\* the structured-vision pass has some finding to report
VisionFindings(v) ==
    v.setup = "ok" /\ \E d \in DetectorSet : v.det[d] \in {"found", "long"}

\* the structured-vision backend raises: at the file read, at the image
\* construction, or in every detector
VisionRaises(v) ==
    v.setup # "ok" \/ \A d \in DetectorSet : v.det[d] = "raise"

\* the generative backend raises whenever it is asked
GeminiFails(g) == \A i \in 1..MaxGeminiAttempts : g[i].raises

\* the generative backend answers the request with a text
GeminiReturnsText(g) == ~g[1].raises /\ g[1].text # Empty

\* C1: when the structured-vision pass returns non-empty findings and the
\* generative backend returns text, analyze_image returns the findings
\* first, then the 'AI Analysis' heading, then the generative text.
C1_FindingsThenNarrative ==
    (ImageAnalyzed /\ vision_available /\ VisionFindings(vis) /\ GeminiReturnsText(gem))
    => LET findings == Join(DetectorEntries(vis.det, 1), <<NL>>)
           narrative == gem[1].text
       IN  /\ findings # Empty
           /\ Len(analysis) = Len(findings) + Len(AIHeading) + Len(narrative)
           /\ OccursAt(analysis, findings, 1)
           /\ OccursAt(analysis, AIHeading, Len(findings) + 1)
           /\ OccursAt(analysis, narrative, Len(findings) + Len(AIHeading) + 1)

C1_Witness ==
    /\ ImageAnalyzed /\ vision_available
    /\ vis.det = AllFound /\ vis.setup = "ok"
    /\ gem[1].text = MarkedNarrative /\ ~gem[1].raises
    /\ Len(analysis) > Len(AIHeading) + Len(MarkedNarrative)
    /\ ~raised

\* C2: when the structured-vision backend raises and the generative
\* backend succeeds, analyze_image returns exactly what the generative-only
\* path returns (the text, or the placeholder for an empty text), and
\* nothing is raised.
C2_VisionRaisesGivesGenerativeOnly ==
    (ImageAnalyzed /\ VisionRaises(vis) /\ ~gem[1].raises)
    => /\ ~raised
       /\ analysis = IF gem[1].text # Empty THEN gem[1].text ELSE PlaceholderImage

C2_Witness ==
    /\ ImageAnalyzed /\ vision_available
    /\ vis.setup = "ok" /\ vis.det = AllRaise
    /\ ~gem[1].raises /\ gem[1].text = PlainNarrative
    /\ analysis = PlainNarrative
    /\ calls["vision"] = 1

\* both backends fail: the generative backend raises at every attempt and,
\* for an image, the structured-vision backend raises or is unavailable
BothFail ==
    /\ GeminiFails(gem)
    /\ \/ VideoAnalyzed
       \/ ImageAnalyzed /\ (VisionRaises(vis) \/ ~vision_available)

\* C3 as stated: when both backends fail the aggregator returns the one
\* fixed fallback string, the same string for images and for videos.
C3_OneFallbackString ==
    BothFail => (analysis = FallbackImage /\ analysis = FallbackVideo)

\* C3 as amended: when both backends fail the aggregator returns exactly a
\* fixed fallback string that depends only on the kind of media: the image
\* fallback for an image, the video fallback for a video.
C3_FallbackPerMediaKind ==
    BothFail => /\ ~raised
                /\ ImageAnalyzed => analysis = FallbackImage
                /\ VideoAnalyzed => analysis = FallbackVideo

C3_Witness ==
    /\ VideoAnalyzed
    /\ GeminiFails(gem)
    /\ analysis = FallbackVideo
    /\ calls["gemini_media"] = 1

\* C4: analyze_image and analyze_video never raise to their caller: for
\* every vision availability, vision answer and generative script the call
\* returns a (non-empty) string.
C4_AggregatorNeverRaises ==
    (ImageAnalyzed \/ VideoAnalyzed) => (~raised /\ analysis # Empty)

C4_Witness ==
    /\ ImageAnalyzed /\ vision_available
    /\ VisionFindings(vis)
    /\ GeminiFails(gem)
    /\ ~raised
    /\ analysis = FallbackImage

\* C5: in the image merge step, when exactly one of the two results exists
\* it is returned: the structured findings when the generative backend
\* failed, the narrative when there are no findings.
C5_OnlyOneResultIsReturned ==
    /\ (ImageAnalyzed /\ vision_available /\ VisionFindings(vis) /\ gem[1].raises)
       => analysis = Join(DetectorEntries(vis.det, 1), <<NL>>)
    /\ (ImageAnalyzed /\ vision_available /\ ~VisionFindings(vis) /\ GeminiReturnsText(gem))
       => analysis = gem[1].text

-----------------------------------------------------------------------------
(* Properties of the handlers (Spec, HandlerSpec)                          *)

\* the upload reached the routing decision of vision_handler (line 210)
Routed == handler = "vision" /\ route # "none"

\* C6: the waiting flag gates image handling: after /removebg the user's
\* next image upload without caption is handled as a background removal,
\* and an image upload with the flag unset and no /removebg caption is
\* handled as a general analysis.
C6_RemovebgCommandGatesNextImage ==
    [][ /\ (handler = "removebg" /\ ~raised /\ Routed'
            /\ file_type' = "image" /\ ~caption')
           => (route' = "removebg" /\ calls'["removebg"] = 1
               /\ calls'["gemini_media"] = 0)
        /\ (~waiting_for_removebg /\ Routed' /\ file_type' = "image" /\ ~caption')
           => route' = "analysis" ]_vars

C8_TempFilesDeleted ==
    (handler = "vision" /\ ~raised) => created \cap disk = {}

\* C9: no network call is retried: while handling one inbound message each
\* upstream is asked at most once; in particular the generative backend is
\* asked to analyze an image at most once.
C9_NoRetry ==
    handler # "none" => \A u \in Upstreams : calls[u] <= 1

\* C10: every inbound message or command produces exactly one reply: for
\* each handler and each outcome of its adapter, exactly one message or
\* photo has been delivered when the handler returns; the handler returns
\* (no exception leaves it) whenever the Telegram calls themselves succeed.
C10_ExactlyOneReply ==
    handler # "none" =>
        /\ ~raised => Len(replies) = 1
        /\ (tg.fault = "none" /\ tg.error_reply_ok) => ~raised

C10_Witness ==
    /\ handler = "youtube" /\ args
    /\ upstream = "empty"
    /\ tg.fault = "none"
    /\ calls["youtube"] = 1
    /\ Len(replies) = 1 /\ replies[1].kind = "no_videos"


\* the findings hold an entry of detector d
HasEntry(d) == \E i \in 1..Len(analysis) : analysis[i] = DetectorLabel(d)

\* the entries of the detectors listed in order
RECURSIVE EntriesInOrder(_)
EntriesInOrder(order) ==
    IF order = <<>> THEN <<>>
    ELSE DetectorEntry(Head(order), vis.det[Head(order)]) \o EntriesInOrder(Tail(order))

\* the structured-vision pass reached its detectors and the findings were
\* merged with the first generative answer
DetectorsMerged ==
    ImageAnalyzed /\ vision_available /\ vis.setup = "ok" /\ ~gem[1].raises

\* C18 as stated: whichever detectors raise, all five are invoked, and the
\* findings hold an entry for exactly the detectors that returned a
\* non-empty result.
C18_EntryForEveryNonEmptyResult ==
    DetectorsMerged
    => /\ invoked = <<"labels", "text", "faces", "landmarks", "logos">>
       /\ \A d \in DetectorSet :
             HasEntry(d) <=> vis.det[d] \in {"short", "found", "long"}

\* C18 amended: whichever detectors raise, all five are invoked, and the
\* findings are the entries, in the order labels, text, faces, landmarks,
\* logos, of exactly the detectors that returned a non-empty result, an OCR
\* text of at most 3 characters counting as no result.
C18_DetectorsIndependent ==
    DetectorsMerged
    => /\ invoked = <<"labels", "text", "faces", "landmarks", "logos">>
       /\ \A d \in DetectorSet :
             HasEntry(d) <=> vis.det[d] \in {"found", "long"}
       /\ OccursAt(analysis,
                   Join(EntriesInOrder(<<"labels", "text", "faces", "landmarks",
                                         "logos">>), <<NL>>), 1)

C18_Witness ==
    /\ DetectorsMerged
    /\ vis.det["labels"] = "raise" /\ vis.det["text"] = "long"
    /\ vis.det["faces"] = "raise" /\ vis.det["landmarks"] = "found"
    /\ vis.det["logos"] = "none"
    /\ invoked = Detectors
    /\ HasEntry("text") /\ HasEntry("landmarks") /\ ~HasEntry("labels")

\* C19: for a video the structured-vision backend is never invoked,
\* configured or not: analyze_video makes exactly one request, to the
\* generative backend, and no detector runs.
C19_VideoIsGenerativeOnly ==
    VideoAnalyzed
    => /\ calls["vision"] = 0
       /\ invoked = <<>>
       /\ calls["gemini_media"] = 1
       /\ \A u \in Upstreams \ {"gemini_media"} : calls[u] = 0

C19_Witness ==
    /\ VideoAnalyzed /\ vision_available
    /\ calls["gemini_media"] = 1 /\ calls["vision"] = 0
    /\ analysis = PlainNarrative

\* the generative backend answers the first request with an empty text
GeminiReturnsEmpty == ~gem[1].raises /\ gem[1].text = Empty

\* t ends with sub
EndsWith(t, sub) == OccursAt(t, sub, Len(t) - Len(sub) + 1)

\* C25: an empty answer of the generative backend is a success: nothing is
\* raised, no further generative request is made, the placeholder
\* ('Unable to analyze the image.' / '... the video.') is the narrative,
\* placed after the heading when there are structured findings, and the
\* result is not the fixed fallback string.
C25_EmptyAnswerGivesPlaceholder ==
    ((ImageAnalyzed \/ VideoAnalyzed) /\ GeminiReturnsEmpty)
    => LET placeholder == IF ImageAnalyzed
                          THEN <<T("Unable to analyze the image.", 28)>>
                          ELSE <<T("Unable to analyze the video.", 28)>>
           merged == ImageAnalyzed /\ vision_available /\ VisionFindings(vis)
       IN  /\ ~raised
           /\ calls["gemini_media"] = 1
           /\ analysis \notin {FallbackImage, FallbackVideo}
           /\ EndsWith(analysis, placeholder)
           /\ IF merged
              THEN /\ EndsWith(analysis, AIHeading \o placeholder)
                   /\ Len(analysis) > Len(AIHeading \o placeholder)
              ELSE analysis = placeholder

C25_Witness ==
    /\ ImageAnalyzed /\ vision_available /\ GeminiReturnsEmpty
    /\ vis.setup = "ok" /\ vis.det = AllFound
    /\ calls["gemini_media"] = 1
    /\ EndsWith(analysis, AIHeading \o PlaceholderImage)
    /\ Len(analysis) > Len(AIHeading) + 1

-----------------------------------------------------------------------------
(* Properties of the command handlers (Spec)                               *)

ArgCommands == {"gemini", "youtube", "movie"}

UsageKind(h) ==
    CASE h = "gemini" -> "usage_ai"
      [] h = "youtube" -> "usage_youtube"
      [] h = "movie" -> "usage_movie"

\* C11: /ai, /youtube and /movie without arguments are answered with the
\* usage text and nothing else happens: no typing indicator is sent, no
\* upstream request is made, and the usage text is the only reply.
C11_NoArgsUsageOnly ==
    (handler \in ArgCommands /\ ~args)
    => /\ typing = 0
       /\ \A u \in Upstreams : calls[u] = 0
       /\ tg.fault = "none" =>
            replies = <<Reply("reply_text", UsageKind(handler), Empty)>>
       /\ \A i \in 1..Len(replies) : replies[i].kind = UsageKind(handler)
       /\ Len(replies) <= 1

C11_Witness ==
    /\ handler = "gemini" /\ ~args
    /\ replies = <<Reply("reply_text", "usage_ai", Empty)>>
    /\ typing = 0 /\ ~raised

\* the adapter the handler called raised: generate_response, search_videos,
\* search_movie (after the typing indicator), or remove_background
AdapterRaised ==
    \/ handler \in ArgCommands /\ args /\ upstream = "raise" /\ tg.fault # "chat_action"
    \/ handler = "text" /\ upstream = "raise" /\ tg.fault # "chat_action"
    \/ /\ handler = "vision" /\ route = "removebg" /\ file_type = "image"
       /\ upstream \in RbResponses \ {"ok"}

ServiceName(h) ==
    CASE h = "gemini" -> "AI Assistant"
      [] h = "youtube" -> "YouTube Search"
      [] h = "movie" -> "Movie Search"
      [] h = "vision" -> "File Analysis"

\* C12 as stated: whenever the adapter of the gemini, youtube, movie, vision
\* or text handler raises, the handler's only reply is the error template
\* format_error_message and no exception leaves the handler (the error
\* reply itself being deliverable).
C12_UniformErrorTemplate ==
    (AdapterRaised /\ tg.error_reply_ok)
    => /\ ~raised
       /\ Len(replies) = 1
       /\ replies[1].kind = "error"

\* C12 amended: the gemini, youtube, movie and vision handlers answer an
\* adapter failure with format_error_message naming their service; the
\* text handler catches the failure too but answers with its fixed
\* "having trouble" text; no exception leaves the handler when the error
\* reply can be delivered.
C12_ErrorReplyPerHandler ==
    (AdapterRaised /\ tg.error_reply_ok)
    => /\ ~raised
       /\ replies = << IF handler = "text"
                       THEN Reply("reply_text", "text_trouble", Empty)
                       ELSE ErrorReply(ServiceName(handler)) >>

C12_Witness ==
    /\ handler = "text" /\ upstream = "raise" /\ calls["gemini_text"] = 1
    /\ replies = <<Reply("reply_text", "text_trouble", Empty)>>
    /\ ~raised

SearchCommands == {"youtube", "movie"}

NotFoundKind(h) == IF h = "youtube" THEN "no_videos" ELSE "no_movie"

\* the search adapter was called and returned an empty list / None
SearchFoundNothing ==
    /\ handler \in SearchCommands /\ args
    /\ upstream = "empty" /\ tg.fault # "chat_action"

ErrorTemplateSent == \E i \in 1..Len(replies) : replies[i].kind = "error"

\* C24 as stated: when search_videos returns an empty list or search_movie
\* returns None the handler sends the 'not found' reply and never the
\* error template; the error template is sent only when the adapter raises.
C24_ErrorTemplateOnlyOnAdapterFailure ==
    (handler \in SearchCommands /\ args)
    => /\ SearchFoundNothing
            => /\ ~ErrorTemplateSent
               /\ tg.fault = "none" =>
                    replies = <<Reply("reply_text", NotFoundKind(handler), Empty)>>
       /\ ErrorTemplateSent => AdapterRaised

\* C24 amended: an empty result is answered with the 'not found' reply; the
\* error template is sent when anything inside the try block raises: the
\* adapter, the typing indicator, or the reply itself (also the 'not
\* found' reply).
C24_NotFoundUnlessReplyRaises ==
    (handler \in SearchCommands /\ args)
    => /\ (SearchFoundNothing /\ tg.fault = "none")
            => replies = <<Reply("reply_text", NotFoundKind(handler), Empty)>>
       /\ (SearchFoundNothing /\ tg.fault = "send")
            => replies = (IF tg.error_reply_ok
                          THEN <<ErrorReply(ServiceName(handler))>> ELSE <<>>)
       /\ ErrorTemplateSent
            => AdapterRaised \/ tg.fault \in {"chat_action", "send"}
       /\ (AdapterRaised /\ tg.error_reply_ok) => ErrorTemplateSent

C24_Witness ==
    /\ handler = "movie" /\ args /\ upstream = "empty"
    /\ calls["tmdb"] = 1 /\ tg.fault = "none"
    /\ replies = <<Reply("reply_text", "no_movie", Empty)>>

-----------------------------------------------------------------------------
(* Properties of the displayed analysis (Spec)                             *)

MarkupChars == {"*", "_", "[", "]"}

\* the number of markup characters in t
MarkupCount(t) == Cardinality({j \in 1..Len(t) : t[j].s \in MarkupChars})

\* t without its markup characters
RECURSIVE Stripped(_)
Stripped(t) ==
    IF t = <<>> THEN <<>>
    ELSE IF Head(t).s \in MarkupChars THEN Stripped(Tail(t))
    ELSE <<Head(t)>> \o Stripped(Tail(t))

AnalysisReplies == {i \in 1..Len(replies) : replies[i].kind = "analysis"}

\* C13: the analysis text sent to the user contains none of the characters
\* '*', '_', '[' and ']', whatever the aggregator returned (findings,
\* narrative or both, truncated or not).
C13_NoMarkupInDisplayedAnalysis ==
    \A i \in AnalysisReplies :
        \A j \in 1..Len(replies[i].text) : replies[i].text[j].s \notin MarkupChars

C13_Witness ==
    /\ handler = "vision" /\ route = "analysis"
    /\ MarkupCount(analysis) > 0
    /\ TextLen(analysis) > AnalysisBudget
    /\ AnalysisReplies # {}
    /\ \A i \in AnalysisReplies : MarkupCount(replies[i].text) = 0

\* C14 as stated: an analysis longer than 3800 characters is displayed as
\* 3800 characters followed by '...'; an analysis of at most 3800
\* characters is displayed whole (its markup characters removed) with no
\* ellipsis added.
C14_CutTo3800PlusEllipsis ==
    \A i \in AnalysisReplies :
        LET shown == replies[i].text
        IN  IF TextLen(analysis) > 3800
            THEN /\ shown # <<>>
                 /\ shown[Len(shown)] = T("...", 3)
                 /\ TextLen(shown) = 3800 + 3
            ELSE shown = Stripped(analysis)

\* C14 amended: an analysis longer than 3800 characters is cut to its first
\* 3800 characters plus '...' and the markup characters are removed
\* afterwards, so the display is those 3800 characters minus the markup
\* characters among them, followed by '...'; an analysis of at most 3800
\* characters is displayed whole, minus its markup characters, with no
\* ellipsis added.
C14_CutThenStripped ==
    \A i \in AnalysisReplies :
        LET shown == replies[i].text
            kept == Prefix(analysis, 3800)
        IN  IF TextLen(analysis) > 3800
            THEN /\ shown = Stripped(kept) \o <<T("...", 3)>>
                 /\ TextLen(shown) = 3800 - MarkupCount(kept) + 3
            ELSE /\ shown = Stripped(analysis)
                 /\ TextLen(shown) = TextLen(analysis) - MarkupCount(analysis)

C14_Witness ==
    /\ handler = "vision" /\ route = "analysis"
    /\ TextLen(analysis) > AnalysisBudget
    /\ AnalysisReplies # {}
    /\ \A i \in AnalysisReplies :
         /\ TextLen(replies[i].text) < AnalysisBudget + 3
         /\ replies[i].text[Len(replies[i].text)] = T("...", 3)

-----------------------------------------------------------------------------
(* Properties of the adapters (AdapterSpec)                                *)

Formatted == handler \in {"format_number", "format_currency"} /\ request.status = "int"

\* the suffix the thresholds give to n, and the unit it counts
SuffixOf(n) ==
    IF n >= 1000000000 THEN "B"
    ELSE IF n >= 1000000 THEN "M"
    ELSE IF n >= 1000 THEN "K"
    ELSE ""

UnitOf(n) ==
    IF n >= 1000000000 THEN 1000000000
    ELSE IF n >= 1000000 THEN 1000000
    ELSE IF n >= 1000 THEN 1000
    ELSE 1

\* the rendered digits are n (below 1000), or n / unit to the nearest tenth
RendersByThresholds(v, n) ==
    /\ v.suffix = SuffixOf(n)
    /\ IF n < 1000
       THEN v.decimals = 0 /\ v.whole = n
       ELSE LET shown == (10 * v.whole + v.tenth) * (UnitOf(n) \div 10)
            IN  /\ v.decimals = 1 /\ v.tenth \in 0..9
                /\ shown - n <= UnitOf(n) \div 20
                /\ n - shown <= UnitOf(n) \div 20

\* the four examples: "950", "1.5K", "2.3M", "1.2B"
RendersExamples(v, n) ==
    /\ n = 950 => v.whole = 950 /\ v.decimals = 0 /\ v.suffix = ""
    /\ n = 1500 => v.whole = 1 /\ v.tenth = 5 /\ v.suffix = "K"
    /\ n = 2300000 => v.whole = 2 /\ v.tenth = 3 /\ v.suffix = "M"
    /\ n = 1200000000 => v.whole = 1 /\ v.tenth = 2 /\ v.suffix = "B"

\* C15 as stated: _format_number and _format_currency alike render n by
\* the thresholds (n/1e9 'B', n/1e6 'M', n/1e3 'K' to one decimal, the plain
\* integer below 1000), so that 950 gives "950", 1500 "1.5K", 2300000
\* "2.3M" and 1200000000 "1.2B", with nothing else in the string.
C15_SameRenderingForBoth ==
    Formatted
    => /\ RendersByThresholds(result.value, request.n)
       /\ RendersExamples(result.value, request.n)
       /\ result.value.prefix = ""

\* C15 amended: both render the digits and the suffix by the thresholds;
\* _format_number gives them bare ("950", "1.5K", "2.3M", "1.2B") and
\* _format_currency behind a dollar sign ("$950", "$1.5K", "$2.3M", "$1.2B").
C15_ThresholdsWithDollarForCurrency ==
    Formatted
    => /\ RendersByThresholds(result.value, request.n)
       /\ RendersExamples(result.value, request.n)
       /\ result.value.prefix = (IF handler = "format_currency" THEN "$" ELSE "")

C15_Witness ==
    /\ handler = "format_currency" /\ request.n = 2300000
    /\ result.value = Rendered("$", 2, 1, 3, "M")

Searched == handler \in {"search_videos", "search_movie"}

\* C16: for every success-status answer of the upstream, whichever of the
\* mapped fields it lacks, search_videos and search_movie return (a list, a
\* record with defaults, or nothing found) and do not raise.
C16_MissingFieldsNeverRaise ==
    (Searched /\ request.status = "ok") => ~result.raised

-----------------------------------------------------------------------------
(* Properties of startup (StartupSpec)                                     *)

RequiredCredentials == Credentials \ {"GOOGLE_APPLICATION_CREDENTIALS"}

\* C17: when the Telegram token or one of the Gemini, YouTube, Remove.bg
\* and TMDB keys is missing, startup ends in a failure with no handler
\* registered and no polling; when at most the structured-vision
\* credential is missing, startup does not fail.
C17_FailFastOnlyOnRequiredCredential ==
    handler = "startup"
    => /\ (request.missing \cap RequiredCredentials # {})
            => /\ result.raised \/ result.outcome = "no_token"
               /\ ~result.registered /\ ~result.polling
       /\ (request.missing \cap RequiredCredentials = {})
            => /\ ~result.raised /\ result.outcome # "no_token"
               /\ result.registered


\* C20: remove_background raises a typed error per class of upstream
\* failure: HTTP 400 the invalid-format error, HTTP 402 the quota error,
\* another HTTP error status a failure carrying the status code, a request
\* failure without a response the network error; none of them arrives
\* wrapped in the 'Background removal failed: ...' message of the last
\* except clause.
C20_TypedRemovalErrors ==
    handler = "remove_background"
    => /\ request.status = "http400" =>
            /\ result.raised
            /\ result.error = "Invalid image format. Please use JPG, PNG, or GIF."
       /\ request.status = "http402" =>
            /\ result.raised
            /\ result.error = "Background removal quota exceeded. Please try again later."
       /\ request.status = "http500" =>
            /\ result.raised
            /\ result.error = "Background removal failed: 500"
       /\ request.status = "network" =>
            /\ result.raised
            /\ result.error = "Network error during background removal"
       /\ request.status = "ok" => ~result.raised /\ result.has_path

C20_Witness ==
    /\ handler = "remove_background" /\ request.status = "http402"
    /\ result.raised
    /\ result.error = "Background removal quota exceeded. Please try again later."

-----------------------------------------------------------------------------
(* Properties of the upload handler (HandlerSpec, Spec)                    *)

\* the handler got as far as its inner try block
Downloaded == handler = "vision" /\ tg.fault \in {"none", "send"}

\* captions that contain '/removebg' in some letter case
RemovalCaptions ==
    { <<"/", "r", "e", "m", "o", "v", "e", "b", "g">>,
      <<"O", "k", " ", "/", "R", "e", "m", "o", "v", "e", "B", "G">> }

\* C21: an image whose caption contains '/removebg' in any letter case is
\* handled as a background removal, with the waiting flag set or not: the
\* removal adapter is called (one request, none when it cannot read the
\* file) and the aggregator is not.
C21_CaptionSelectsRemoval ==
    (Downloaded /\ file_type = "image" /\ caption_text \in RemovalCaptions)
    => /\ route = "removebg"
       /\ upstream \in RbResponses
       /\ calls["removebg"] = (IF upstream = "unreadable" THEN 0 ELSE 1)
       /\ calls["gemini_media"] = 0 /\ calls["vision"] = 0
       /\ invoked = <<>> /\ analysis = Empty
       /\ \A i \in 1..Len(replies) : replies[i].kind \notin {"analysis", "unable_to_analyze"}

C21_Witness ==
    /\ Downloaded /\ file_type = "image"
    /\ caption_text = <<"O", "k", " ", "/", "R", "e", "m", "o", "v", "e", "B", "G">>
    /\ calls["removebg"] = 1 /\ calls["gemini_media"] = 0
    /\ replies = <<Reply("send_photo", "background_removed", Empty)>>

\* a video was downloaded and selected for background removal, by its
\* caption or by the waiting flag of the state before
VideoForRemoval ==
    /\ Downloaded' /\ file_type' = "video"
    /\ caption_text' \in RemovalCaptions \/ waiting_for_removebg

\* C22: for a video selected for background removal neither the removal
\* adapter nor the aggregator is called, the only reply is the 'only works
\* with images' message, and the downloaded file is deleted.
C22_VideoRemovalOnlyReplies ==
    [][ VideoForRemoval
        => /\ \A u \in Upstreams : calls'[u] = 0
           /\ invoked' = <<>> /\ analysis' = Empty
           /\ tg'.fault = "none" =>
                replies' = <<Reply("reply_text", "removebg_images_only", Empty)>>
           /\ \A i \in 1..Len(replies') :
                replies'[i].kind \in {"removebg_images_only", "error"}
           /\ created' # {} /\ created' \cap disk' = {} ]_vars

C22_Witness ==
    /\ Downloaded /\ file_type = "video" /\ caption_text = NoCaption
    /\ route = "removebg"
    /\ replies = <<Reply("reply_text", "removebg_images_only", Empty)>>
    /\ created # {} /\ created \cap disk = {}

\* C23: the analysis text of a reply (what follows the 'Image Analysis' /
\* 'Video Analysis' prefix) has at most 3800 + 3 characters, whatever the
\* length of the aggregator's output.
C23_AnalysisBodyBounded ==
    \A i \in AnalysisReplies : TextLen(replies[i].text) <= 3800 + 3

C23_Witness ==
    /\ handler = "vision" /\ route = "analysis"
    /\ TextLen(analysis) = 5000
    /\ AnalysisReplies # {}
    /\ \A i \in AnalysisReplies : TextLen(replies[i].text) = 3803
====
